---- MODULE Spec2Model ----
(***************************************************************************)
(* Model of the ESP32 simulator (src/server.js): the device state, the     *)
(* runtime-switchable encryption of sensor records, the bounded encrypted  *)
(* history, the data-health evaluator, the periodic update cycle and the   *)
(* HTTP / socket.io handlers that read and change them.                    *)
(*                                                                         *)
(* JavaScript values are tagged records [t |-> type, v |-> value]; a      *)
(* JavaScript string is the sequence of its characters.                    *)
(***************************************************************************)
EXTENDS Integers, Sequences, FiniteSets, TLC

VARIABLES env, phase, now, timerDue, deviceState, currentEncAlgo,
          sensorHistory, appended, sockets, view, out, ticks, reqs

vars == <<env, phase, now, timerDue, deviceState, currentEncAlgo,
          sensorHistory, appended, sockets, view, out, ticks, reqs>>

(***************************************************************************)
(* JavaScript values                                                       *)
(***************************************************************************)
Undefined == [t |-> "undefined"]
Null == [t |-> "null"]
Str(s) == [t |-> "string", v |-> s]
Num(n) == [t |-> "number", v |-> n]
Bool(b) == [t |-> "boolean", v |-> b]
NaN == [t |-> "NaN"]

\* x === y for primitive values.  NaN is never equal to anything.
StrictEq(x, y) == x.t = y.t /\ x.t # "NaN"
                  /\ (x.t \in {"undefined", "null"} \/ x.v = y.v)

\* ToBoolean: undefined, null, NaN, 0, "" and false are falsy.
Truthy(x) ==
  CASE x.t \in {"undefined", "null", "NaN"} -> FALSE
    [] x.t = "number" -> x.v # 0
    [] x.t = "string" -> x.v # <<>>
    [] x.t = "boolean" -> x.v
    [] OTHER -> TRUE

\* a || b
Or(a, b) == IF Truthy(a) THEN a ELSE b

LowerChars == <<"a", "b", "c", "d", "e", "f", "g", "h", "i", "j", "k", "l", "m",
                "n", "o", "p", "q", "r", "s", "t", "u", "v", "w", "x", "y", "z">>
UpperChars == <<"A", "B", "C", "D", "E", "F", "G", "H", "I", "J", "K", "L", "M",
                "N", "O", "P", "Q", "R", "S", "T", "U", "V", "W", "X", "Y", "Z">>
DigitChars == <<"0", "1", "2", "3", "4", "5", "6", "7", "8", "9">>

ToUpperChar(c) ==
  IF \E i \in 1..26 : LowerChars[i] = c
  THEN UpperChars[CHOOSE i \in 1..26 : LowerChars[i] = c]
  ELSE c

\* String.prototype.toUpperCase
toUpperCase(s) == [i \in 1..Len(s) |-> ToUpperChar(s[i])]

IsDigit(c) == \E i \in 1..10 : DigitChars[i] = c
DigitVal(c) == (CHOOSE i \in 1..10 : DigitChars[i] = c) - 1

RECURSIVE SkipSpaces(_)
SkipSpaces(s) == IF s # <<>> /\ Head(s) = " " THEN SkipSpaces(Tail(s)) ELSE s

\* the value of the longest prefix of decimal digits of s, acc so far
RECURSIVE DigitsValue(_, _)
DigitsValue(s, acc) ==
  IF s # <<>> /\ IsDigit(Head(s))
  THEN DigitsValue(Tail(s), 10 * acc + DigitVal(Head(s)))
  ELSE acc

\* parseInt(x): undefined gives NaN; a string gives the integer its longest
\* prefix [spaces][sign]digits denotes, NaN when there is no digit.
parseInt(x) ==
  IF x.t # "string" THEN NaN
  ELSE LET s == SkipSpaces(x.v)
           neg == s # <<>> /\ Head(s) = "-"
           body == IF s # <<>> /\ Head(s) \in {"-", "+"} THEN Tail(s) ELSE s
       IN IF body = <<>> \/ ~IsDigit(Head(body)) THEN NaN
          ELSE Num(IF neg THEN 0 - DigitsValue(body, 0) ELSE DigitsValue(body, 0))

\* parseFloat on strings without a fraction or exponent part
parseFloat(x) == parseInt(x)


(***************************************************************************)
(* Bounds of the model                                                     *)
(***************************************************************************)
\* Math.random() is drawn from the fractions p / RandomDen, 0 <= p < RandomDen
RandomDen == 64
\* the wide profile: few ticks, every kind of input
MaxTicks == 2
MaxReqs == 2
MaxTime == 2
\* the data-health evaluator on its own: the times it is given
MaxHealthTime == 3
\* key derivation on its own: the longest secret
MaxSecretLen == 3
\* the long-run profile: enough ticks to overflow the history, few inputs
LongMaxTicks == 502
LongMaxReqs == 2

(***************************************************************************)
(* Encryption configuration (src/server.js 35-81)                          *)
(***************************************************************************)
AES == <<"A", "E", "S">>
DES == <<"D", "E", "S">>

\* the names every object literal inherits from Object.prototype
ObjectPrototypeKeys ==
  { <<"c", "o", "n", "s", "t", "r", "u", "c", "t", "o", "r">>,
    <<"t", "o", "S", "t", "r", "i", "n", "g">>,
    <<"v", "a", "l", "u", "e", "O", "f">> }

\* mutant: the DES profile with the iv length of AES
ALGORITHMS_DesIv16(name) ==
  CASE name = AES -> [t |-> "object", cipher |-> "aes-256-cbc",
                      keyLen |-> Num(32), ivLen |-> Num(16)]
    [] name = DES -> [t |-> "object", cipher |-> "des-ede3-cbc",
                      keyLen |-> Num(24), ivLen |-> Num(16)]
    [] name \in ObjectPrototypeKeys -> [t |-> "function", cipher |-> "none",
                                        keyLen |-> Undefined, ivLen |-> Undefined]
    [] OTHER -> Undefined

\* ALGORITHMS[name]: the profile of an own key, an inherited function for a
\* key of Object.prototype (truthy, without keyLen and ivLen), else undefined.
ALGORITHMS(name) ==
  CASE name = AES -> [t |-> "object", cipher |-> "aes-256-cbc",
                      keyLen |-> Num(32), ivLen |-> Num(16)]
    [] name = DES -> [t |-> "object", cipher |-> "des-ede3-cbc",
                      keyLen |-> Num(24), ivLen |-> Num(8)]
    [] name \in ObjectPrototypeKeys -> [t |-> "function", cipher |-> "none",
                                        keyLen |-> Undefined, ivLen |-> Undefined]
    [] OTHER -> Undefined

\* the code of a character of a secret (ASCII)
CharCode(c) ==
  IF IsDigit(c) THEN 48 + DigitVal(c)
  ELSE IF \E i \in 1..26 : LowerChars[i] = c
       THEN 96 + (CHOOSE i \in 1..26 : LowerChars[i] = c)
       ELSE IF \E i \in 1..26 : UpperChars[i] = c
            THEN 64 + (CHOOSE i \in 1..26 : UpperChars[i] = c)
            ELSE 63

RECURSIVE Mix(_, _)
Mix(s, acc) == IF s = <<>> THEN acc
               ELSE Mix(Tail(s), (acc * 31 + CharCode(Head(s))) % 65521)

\* crypto.createHash('sha256').update(s).digest(): 32 bytes that depend on
\* nothing but s (a stand-in for SHA-256, which is not computed here).
Sha256(s) == LET m == Mix(s, 7) IN [i \in 1..32 |-> (m * (2 * i + 1) + i) % 256]

\* Buffer.subarray(0, n); n undefined keeps the whole buffer
subarray(buf, n) ==
  IF n.t = "number"
  THEN SubSeq(buf, 1, IF n.v < 0 THEN 0 ELSE IF n.v > Len(buf) THEN Len(buf) ELSE n.v)
  ELSE buf

\* mutant: the digest is not truncated
deriveKey_Whole(secret, keyLen) == Sha256(secret)

deriveKey(secret, keyLen) == subarray(Sha256(secret), keyLen)

Base64Chars ==
  <<"A", "B", "C", "D", "E", "F", "G", "H", "I", "J", "K", "L", "M",
    "N", "O", "P", "Q", "R", "S", "T", "U", "V", "W", "X", "Y", "Z",
    "a", "b", "c", "d", "e", "f", "g", "h", "i", "j", "k", "l", "m",
    "n", "o", "p", "q", "r", "s", "t", "u", "v", "w", "x", "y", "z",
    "0", "1", "2", "3", "4", "5", "6", "7", "8", "9", "+", "/">>

\* Buffer.toString('base64'): 3 bytes give 4 characters, padded with "="
toBase64(b) ==
  LET n == Len(b)
      at(i) == IF i <= n THEN b[i] ELSE 0
      ch(j) == LET g == (j - 1) \div 4
                   k == (j - 1) % 4
                   b0 == at(3 * g + 1)
                   b1 == at(3 * g + 2)
                   b2 == at(3 * g + 3)
               IN CASE k = 0 -> Base64Chars[(b0 \div 4) + 1]
                    [] k = 1 -> Base64Chars[((b0 % 4) * 16 + (b1 \div 16)) + 1]
                    [] k = 2 -> IF 3 * g + 2 > n THEN "="
                                ELSE Base64Chars[((b1 % 16) * 4 + (b2 \div 64)) + 1]
                    [] OTHER -> IF 3 * g + 3 > n THEN "="
                                ELSE Base64Chars[(b2 % 64) + 1]
  IN [j \in 1..(4 * ((n + 2) \div 3)) |-> ch(j)]

\* crypto.randomBytes(n): n bytes; the model draws them all equal to `fill`.
\* A size that is not a number is a TypeError.
randomBytes(n, fill) ==
  IF n.t = "number" THEN [ok |-> TRUE, bytes |-> [i \in 1..n.v |-> fill]]
  ELSE [ok |-> FALSE, bytes |-> <<>>]

\* encryptJSON(data, algoName, secret).  rnd is what the crypto library
\* contributes: the random byte `fill` and whether createCipheriv / update /
\* final throws (`fault`).  The ciphertext is opaque: the model keeps the
\* cipher, the length of the key it was given and the text it encrypted (the
\* iv is in the envelope).
encryptJSON(data, algoName, secret, rnd) ==
  LET algo == ALGORITHMS(algoName)
  IN IF ~Truthy(algo)
     THEN [ok |-> FALSE, error |-> "Unsupported algorithm"]
     ELSE LET key == deriveKey(secret, algo.keyLen)
              iv == randomBytes(algo.ivLen, rnd.fill)
          IN IF ~iv.ok THEN [ok |-> FALSE, error |-> "TypeError"]
             ELSE IF rnd.fault \/ algo.t # "object"
                  THEN [ok |-> FALSE, error |-> "cipher error"]
                  ELSE [ok |-> TRUE,
                        value |-> [algo |-> algoName,
                                   iv |-> toBase64(iv.bytes),
                                   data |-> [cipher |-> algo.cipher,
                                             keyLen |-> Len(key),
                                             text |-> data]]]

(***************************************************************************)
(* Configuration: process.env, fixed when the process starts               *)
(***************************************************************************)
TRUE_STR == <<"t", "r", "u", "e">>

DATA_SECRET(e) == Or(e.DATA_SECRET, Str(<<"1", "6", "5", "7", "4", "3">>)).v

DEFAULT_ENC_ALGO(e) == IF StrictEq(e.ENC_ALGO, Str(DES)) THEN DES ELSE AES

\* const tempInterval = parseInt(process.env.TEMP_INTERVAL) || 5000
tempInterval(e) == Or(parseInt(e.TEMP_INTERVAL), Num(5000)).v

\* setInterval treats a delay below 1 ms as 1 ms
timerPeriod(e) == IF tempInterval(e) < 1 THEN 1 ELSE tempInterval(e)

(***************************************************************************)
(* Simulated sensor values (src/server.js 102-112)                         *)
(***************************************************************************)
\* Math.floor(Math.random() * (max - min + 1)) + min with Math.random() = p / RandomDen
randomInRange(min, max, p) == ((p * (max - min + 1)) \div RandomDen) + min

generateRandomTemperature(e, p) ==
  randomInRange(Or(parseFloat(e.TEMP_MIN), Num(20)).v,
                Or(parseFloat(e.TEMP_MAX), Num(35)).v, p)

generateRandomHumidity(e, p) ==
  randomInRange(Or(parseFloat(e.HUM_MIN), Num(40)).v,
                Or(parseFloat(e.HUM_MAX), Num(80)).v, p)

(***************************************************************************)
(* Data health (src/server.js 118-139)                                     *)
(***************************************************************************)
Date(ms) == [t |-> "date", v |-> ms]

\* const maxAge = parseInt(process.env.DATA_HEALTH_MAX_AGE_MS) || (tempInterval * 2)
maxAge(e) == Or(parseInt(e.DATA_HEALTH_MAX_AGE_MS), Num(tempInterval(e) * 2)).v

\* mutant: fresh only when strictly younger than maxAge
getDataHealth_Strict(ds, clock, e) ==
  IF ~Truthy(ds.lastUpdate)
  THEN [status |-> "UNKNOWN", ageMs |-> Null, isFresh |-> FALSE, lastUpdate |-> Null]
  ELSE LET ageMs == clock - ds.lastUpdate.v
           isFresh == ageMs < maxAge(e)
       IN [status |-> IF isFresh THEN "OK" ELSE "STALE",
           ageMs |-> Num(ageMs),
           isFresh |-> isFresh,
           lastUpdate |-> ds.lastUpdate]

\* getDataHealth() for device state ds when Date.now() is `clock`
getDataHealth(ds, clock, e) ==
  IF ~Truthy(ds.lastUpdate)
  THEN [status |-> "UNKNOWN", ageMs |-> Null, isFresh |-> FALSE, lastUpdate |-> Null]
  ELSE LET ageMs == clock - ds.lastUpdate.v
           isFresh == ageMs <= maxAge(e)
       IN [status |-> IF isFresh THEN "OK" ELSE "STALE",
           ageMs |-> Num(ageMs),
           isFresh |-> isFresh,
           lastUpdate |-> ds.lastUpdate]

(***************************************************************************)
(* History (src/server.js 98, 159-160)                                     *)
(***************************************************************************)
HISTORY_LIMIT == 500

\* mutant: the oldest entry is never dropped
pushHistory_NoShift(h, payload) == Append(h, payload)

\* mutant: on overflow the newest entry is dropped instead of the oldest
pushHistory_Pop(h, payload) ==
  LET pushed == Append(h, payload)
  IN IF Len(pushed) > HISTORY_LIMIT THEN SubSeq(pushed, 1, HISTORY_LIMIT) ELSE pushed

\* sensorHistory.push(payload); if (sensorHistory.length > 500) sensorHistory.shift()
pushHistory(h, payload) ==
  LET pushed == Append(h, payload)
  IN IF Len(pushed) > HISTORY_LIMIT THEN Tail(pushed) ELSE pushed

(***************************************************************************)
(* Forwarding to the main server (src/server.js 187-236)                   *)
(***************************************************************************)
IsSchemeChar(c) == (\E i \in 1..26 : LowerChars[i] = c \/ UpperChars[i] = c)
                   \/ IsDigit(c) \/ c \in {"+", "-", "."}

\* new URL(path, base) throws unless base is an absolute URL: a scheme of
\* letters, digits, "+", "-", "." that starts with a letter, then ":".
IsAbsoluteUrl(s) ==
  \E k \in 2..Len(s) :
    /\ s[k] = ":"
    /\ \E i \in 1..26 : LowerChars[i] = s[1] \/ UpperChars[i] = s[1]
    /\ \A j \in 1..(k - 1) : IsSchemeChar(s[j])

\* sendToMainServer(): "skipped" when forwarding is off, "threw" when new URL
\* throws, else "sent" (the request is asynchronous: its response, error or
\* timeout changes no state).
sendToMainServer(e) ==
  LET mainServerUrl == e.MAIN_SERVER_URL
      shouldSend == StrictEq(e.SEND_TO_MAIN_SERVER, Str(TRUE_STR))
  IN IF ~shouldSend \/ ~Truthy(mainServerUrl) THEN "skipped"
     ELSE IF ~IsAbsoluteUrl(mainServerUrl.v) THEN "threw"
          ELSE "sent"

(***************************************************************************)
(* Input profiles: the sets the environment's choices are drawn from       *)
(***************************************************************************)
BaseEnv == [TEMP_MIN |-> Undefined, TEMP_MAX |-> Undefined,
            HUM_MIN |-> Undefined, HUM_MAX |-> Undefined,
            TEMP_INTERVAL |-> Str(<<"1">>),
            DATA_HEALTH_MAX_AGE_MS |-> Undefined,
            ENC_ALGO |-> Undefined, DATA_SECRET |-> Undefined,
            SEND_TO_MAIN_SERVER |-> Undefined, MAIN_SERVER_URL |-> Undefined]

WideEnvs ==
  { [BaseEnv EXCEPT !.DATA_HEALTH_MAX_AGE_MS = Str(<<"1">>),
                    !.SEND_TO_MAIN_SERVER = Str(TRUE_STR),
                    !.MAIN_SERVER_URL = Str(<<"h", "t", "t", "p", ":", "/", "/", "h">>)],
    [BaseEnv EXCEPT !.SEND_TO_MAIN_SERVER = Str(TRUE_STR),
                    !.MAIN_SERVER_URL = Str(<<"h", "o", "s", "t">>)] }

LongEnvs ==
  { [BaseEnv EXCEPT !.TEMP_MIN = Str(<<"2", "5">>), !.TEMP_MAX = Str(<<"2", "5">>),
                    !.HUM_MIN = Str(<<"6", "0">>), !.HUM_MAX = Str(<<"6", "0">>),
                    !.ENC_ALGO = Str(DES)] }

\* configurations: the defaults with a short maximum age, sensor bounds that
\* are zero, negative or positive, and a negative maximum age
ConfigEnvs ==
  { [BaseEnv EXCEPT !.DATA_HEALTH_MAX_AGE_MS = Str(<<"1">>)],
    [BaseEnv EXCEPT !.TEMP_MIN = Str(<<"0">>), !.TEMP_MAX = Str(<<"1", "0">>),
                    !.HUM_MIN = Str(<<"0">>), !.HUM_MAX = Str(<<"1", "0", "0">>)],
    [BaseEnv EXCEPT !.TEMP_MIN = Str(<<"-", "5">>), !.TEMP_MAX = Str(<<"0">>)],
    [BaseEnv EXCEPT !.TEMP_MIN = Str(<<"2", "1">>), !.TEMP_MAX = Str(<<"2", "2">>),
                    !.HUM_MIN = Str(<<"5", "0">>), !.HUM_MAX = Str(<<"5", "0">>)],
    [BaseEnv EXCEPT !.DATA_HEALTH_MAX_AGE_MS = Str(<<"-", "1">>)] }

Observers == {"o1"}

\* Wide: a short run with faults, late timers and every outcome of each
\* handler.  Long: a run long enough to overflow the history, with the timer
\* on time, the inputs that leave the history's entries alike, and requests
\* served around the tick that fills the history (reqTicks).
Wide == [envs |-> WideEnvs, maxTicks |-> MaxTicks, maxReqs |-> MaxReqs,
         maxTime |-> MaxTime, maxLate |-> MaxTime, reqTicks |-> 0..(MaxTicks + 1),
         elapsed |-> {0, 2},
         randoms |-> {<<0, RandomDen - 1>>},
         rnds |-> {[fill |-> 173, fault |-> FALSE], [fill |-> 20, fault |-> TRUE]},
         exportRnds |-> {[fill |-> 20, fault |-> FALSE]},
         states |-> {Str(<<"O", "N">>), Bool(FALSE), Str(<<"o", "n">>), Undefined},
         flags |-> {Undefined, Bool(FALSE)},
         algos |-> {Undefined, Str(<<"a", "e", "s">>), Str(<<"D", "e", "s">>),
                    Str(<<"x", "y", "z">>),
                    Str(<<"c", "o", "n", "s", "t", "r", "u", "c", "t", "o", "r">>)},
         queryAlgos |-> {Undefined, Str(AES), Str(<<"X", "Y", "Z">>)},
         observers |-> {"o1"}]

Long == [envs |-> LongEnvs, maxTicks |-> LongMaxTicks, maxReqs |-> LongMaxReqs,
         maxTime |-> LongMaxTicks, maxLate |-> 0,
         reqTicks |-> {HISTORY_LIMIT - 1, HISTORY_LIMIT, HISTORY_LIMIT + 1},
         elapsed |-> {0},
         randoms |-> {<<0, 0>>},
         rnds |-> {[fill |-> 173, fault |-> FALSE]},
         exportRnds |-> {[fill |-> 173, fault |-> FALSE]},
         states |-> {Num(1), Num(2)},
         flags |-> {Undefined, Null},
         algos |-> {Str(<<"A", "e", "s">>), Num(5)},
         queryAlgos |-> {Undefined,
                         Str(<<"c", "o", "n", "s", "t", "r", "u", "c", "t", "o", "r">>)},
         observers |-> {"o1"}]

\* Config: a short run under each configuration of ConfigEnvs, with the
\* extreme draws of Math.random()
Config == [envs |-> ConfigEnvs, maxTicks |-> MaxTicks, maxReqs |-> MaxReqs,
           maxTime |-> MaxTime, maxLate |-> MaxTime, reqTicks |-> 0..(MaxTicks + 1),
           elapsed |-> {0},
           randoms |-> {<<0, RandomDen - 1>>, <<RandomDen - 1, 0>>},
           rnds |-> {[fill |-> 173, fault |-> FALSE]},
           exportRnds |-> {[fill |-> 20, fault |-> FALSE]},
           states |-> {Str(<<"O", "N">>), Undefined, Str(<<"o", "n">>)},
           flags |-> {Undefined},
           algos |-> {Undefined},
           queryAlgos |-> {Undefined},
           observers |-> {"o1"}]

(***************************************************************************)
(* State                                                                   *)
(***************************************************************************)
NoView == [connected |-> FALSE]
NoOutput == [op |-> "none", req |-> Null, status |-> 0, body |-> Null, events |-> <<>>]

Init(B) ==
  /\ env \in B.envs
  /\ phase = "boot"
  /\ now = 0
  /\ timerDue = 0
  /\ deviceState = [led |-> FALSE, fan |-> FALSE, allowFanControl |-> TRUE,
                    temperature |-> 25, humidity |-> 60, lastUpdate |-> Date(0)]
  /\ currentEncAlgo = DEFAULT_ENC_ALGO(env)
  /\ sensorHistory = <<>>
  /\ appended = <<>>
  /\ sockets = {}
  /\ view = [o \in Observers |-> NoView]
  /\ out = NoOutput
  /\ ticks = 0
  /\ reqs = 0

(***************************************************************************)
(* The update cycle (src/server.js 142-183, 458-461)                       *)
(***************************************************************************)
\* mutant: freshness is evaluated before lastUpdate is stored
updateSensorData_EarlyHealth(B, p, rnd, el) ==
  LET ds == [deviceState EXCEPT !.temperature = generateRandomTemperature(env, p[1]),
                                !.humidity = generateRandomHumidity(env, p[2]),
                                !.lastUpdate = Date(now)]
      record == [timestamp |-> [t |-> "isostring", v |-> now],
                 temperature |-> ds.temperature,
                 humidity |-> ds.humidity]
      enc == encryptJSON(record, currentEncAlgo, DATA_SECRET(env), rnd)
      health == getDataHealth(deviceState, now + el, env)
      forward == sendToMainServer(env)
      \* the statements of the function in the order they run: lines 143-145,
      \* 154-160, 166, 173, 174, 182
      steps == <<"store">>
               \o (IF enc.ok THEN <<"append">> ELSE <<>>)
               \o <<"emit temperatureUpdated", "getDataHealth", "emit dataHealthUpdated",
                    "sendToMainServer">>
  IN /\ phase \in {"boot", "running"}
     /\ ticks < B.maxTicks
     /\ phase = "running" => now >= timerDue
     /\ now + el <= B.maxTime
     /\ deviceState' = ds
     /\ sensorHistory' = IF enc.ok THEN pushHistory(sensorHistory, enc.value)
                         ELSE sensorHistory
     /\ appended' = IF enc.ok THEN Append(appended, enc.value) ELSE appended
     /\ out' = [op |-> "tick",
                req |-> Null,
                status |-> 0,
                body |-> [encrypted |-> enc.ok, forward |-> forward, steps |-> steps],
                events |-> << [name |-> "temperatureUpdated",
                               payload |-> [temperature |-> ds.temperature,
                                            humidity |-> ds.humidity,
                                            timestamp |-> ds.lastUpdate]],
                              [name |-> "dataHealthUpdated", payload |-> health] >>]
     /\ phase' = IF forward = "threw" THEN "crashed" ELSE "running"
     /\ now' = now + el
     /\ timerDue' = now + timerPeriod(env)
     /\ ticks' = ticks + 1
     /\ UNCHANGED <<env, currentEncAlgo, sockets, view, reqs>>

\* mutant: the history is encrypted under the boot-time algorithm
updateSensorData_DefaultAlgo(B, p, rnd, el) ==
  LET ds == [deviceState EXCEPT !.temperature = generateRandomTemperature(env, p[1]),
                                !.humidity = generateRandomHumidity(env, p[2]),
                                !.lastUpdate = Date(now)]
      record == [timestamp |-> [t |-> "isostring", v |-> now],
                 temperature |-> ds.temperature,
                 humidity |-> ds.humidity]
      enc == encryptJSON(record, DEFAULT_ENC_ALGO(env), DATA_SECRET(env), rnd)
      health == getDataHealth(ds, now + el, env)
      forward == sendToMainServer(env)
      \* the statements of the function in the order they run: lines 143-145,
      \* 154-160, 166, 173, 174, 182
      steps == <<"store">>
               \o (IF enc.ok THEN <<"append">> ELSE <<>>)
               \o <<"emit temperatureUpdated", "getDataHealth", "emit dataHealthUpdated",
                    "sendToMainServer">>
  IN /\ phase \in {"boot", "running"}
     /\ ticks < B.maxTicks
     /\ phase = "running" => now >= timerDue
     /\ now + el <= B.maxTime
     /\ deviceState' = ds
     /\ sensorHistory' = IF enc.ok THEN pushHistory(sensorHistory, enc.value)
                         ELSE sensorHistory
     /\ appended' = IF enc.ok THEN Append(appended, enc.value) ELSE appended
     /\ out' = [op |-> "tick",
                req |-> Null,
                status |-> 0,
                body |-> [encrypted |-> enc.ok, forward |-> forward, steps |-> steps],
                events |-> << [name |-> "temperatureUpdated",
                               payload |-> [temperature |-> ds.temperature,
                                            humidity |-> ds.humidity,
                                            timestamp |-> ds.lastUpdate]],
                              [name |-> "dataHealthUpdated", payload |-> health] >>]
     /\ phase' = IF forward = "threw" THEN "crashed" ELSE "running"
     /\ now' = now + el
     /\ timerDue' = now + timerPeriod(env)
     /\ ticks' = ticks + 1
     /\ UNCHANGED <<env, currentEncAlgo, sockets, view, reqs>>

\* mutant: the tick does not store lastUpdate
updateSensorData_KeepStamp(B, p, rnd, el) ==
  LET ds == [deviceState EXCEPT !.temperature = generateRandomTemperature(env, p[1]),
                                !.humidity = generateRandomHumidity(env, p[2])]
      record == [timestamp |-> [t |-> "isostring", v |-> now],
                 temperature |-> ds.temperature,
                 humidity |-> ds.humidity]
      enc == encryptJSON(record, currentEncAlgo, DATA_SECRET(env), rnd)
      health == getDataHealth(ds, now + el, env)
      forward == sendToMainServer(env)
      \* the statements of the function in the order they run: lines 143-145,
      \* 154-160, 166, 173, 174, 182
      steps == <<"store">>
               \o (IF enc.ok THEN <<"append">> ELSE <<>>)
               \o <<"emit temperatureUpdated", "getDataHealth", "emit dataHealthUpdated",
                    "sendToMainServer">>
  IN /\ phase \in {"boot", "running"}
     /\ ticks < B.maxTicks
     /\ phase = "running" => now >= timerDue
     /\ now + el <= B.maxTime
     /\ deviceState' = ds
     /\ sensorHistory' = IF enc.ok THEN pushHistory(sensorHistory, enc.value)
                         ELSE sensorHistory
     /\ appended' = IF enc.ok THEN Append(appended, enc.value) ELSE appended
     /\ out' = [op |-> "tick",
                req |-> Null,
                status |-> 0,
                body |-> [encrypted |-> enc.ok, forward |-> forward, steps |-> steps],
                events |-> << [name |-> "temperatureUpdated",
                               payload |-> [temperature |-> ds.temperature,
                                            humidity |-> ds.humidity,
                                            timestamp |-> ds.lastUpdate]],
                              [name |-> "dataHealthUpdated", payload |-> health] >>]
     /\ phase' = IF forward = "threw" THEN "crashed" ELSE "running"
     /\ now' = now + el
     /\ timerDue' = now + timerPeriod(env)
     /\ ticks' = ticks + 1
     /\ UNCHANGED <<env, currentEncAlgo, sockets, view, reqs>>

\* updateSensorData() at time `now`; p holds the two draws of Math.random(),
\* rnd the crypto library's part, el the time the call takes from line 145
\* to line 173.  The first call is the direct one of line 461, made before
\* the server listens; the later ones are the interval timer's, not before
\* the timer is due.  An exception that leaves the function ends the process.
updateSensorData(B, p, rnd, el) ==
  LET ds == [deviceState EXCEPT !.temperature = generateRandomTemperature(env, p[1]),
                                !.humidity = generateRandomHumidity(env, p[2]),
                                !.lastUpdate = Date(now)]
      record == [timestamp |-> [t |-> "isostring", v |-> now],
                 temperature |-> ds.temperature,
                 humidity |-> ds.humidity]
      enc == encryptJSON(record, currentEncAlgo, DATA_SECRET(env), rnd)
      health == getDataHealth(ds, now + el, env)
      forward == sendToMainServer(env)
      \* the statements of the function in the order they run: lines 143-145,
      \* 154-160, 166, 173, 174, 182
      steps == <<"store">>
               \o (IF enc.ok THEN <<"append">> ELSE <<>>)
               \o <<"emit temperatureUpdated", "getDataHealth", "emit dataHealthUpdated",
                    "sendToMainServer">>
  IN /\ phase \in {"boot", "running"}
     /\ ticks < B.maxTicks
     /\ phase = "running" => now >= timerDue
     /\ now + el <= B.maxTime
     /\ deviceState' = ds
     /\ sensorHistory' = IF enc.ok THEN pushHistory(sensorHistory, enc.value)
                         ELSE sensorHistory
     /\ appended' = IF enc.ok THEN Append(appended, enc.value) ELSE appended
     /\ out' = [op |-> "tick",
                req |-> Null,
                status |-> 0,
                body |-> [encrypted |-> enc.ok, forward |-> forward, steps |-> steps],
                events |-> << [name |-> "temperatureUpdated",
                               payload |-> [temperature |-> ds.temperature,
                                            humidity |-> ds.humidity,
                                            timestamp |-> ds.lastUpdate]],
                              [name |-> "dataHealthUpdated", payload |-> health] >>]
     /\ phase' = IF forward = "threw" THEN "crashed" ELSE "running"
     /\ now' = now + el
     /\ timerDue' = now + timerPeriod(env)
     /\ ticks' = ticks + 1
     /\ UNCHANGED <<env, currentEncAlgo, sockets, view, reqs>>

Tick(B) ==
  \E p \in B.randoms, rnd \in B.rnds, el \in B.elapsed :
    updateSensorData(B, p, rnd, el)

\* a millisecond passes; the interval timer is at most B.maxLate ms late
Advance(B) ==
  /\ phase = "running"
  /\ now + 1 <= B.maxTime
  /\ now + 1 <= timerDue + B.maxLate
  /\ now' = now + 1
  /\ UNCHANGED <<env, phase, timerDue, deviceState, currentEncAlgo, sensorHistory,
                 appended, sockets, view, out, ticks, reqs>>

(***************************************************************************)
(* Requests                                                                *)
(***************************************************************************)
\* a request is served once the server listens
Serving(B) ==
  /\ phase = "running"
  /\ reqs < B.maxReqs
  /\ ticks \in B.reqTicks

\* io.emit(name, payload): every connected observer receives the event; an
\* observer keeps the settings it was last told.
Delivered(v, conns, events) ==
  LET told == { i \in 1..Len(events) : events[i].name = "settingsUpdated" }
  IN IF told = {} THEN v
     ELSE LET last == events[CHOOSE i \in told : \A j \in told : j <= i].payload
          IN [o \in Observers |->
                IF o \in conns
                THEN [connected |-> TRUE,
                      allowFanControl |-> last.allowFanControl,
                      encAlgo |-> last.encAlgo]
                ELSE v[o]]

\* what a handler leaves behind: the device state, the active algorithm, the
\* response and the events it published
Served(B, ds, algo, op, req, status, body, events) ==
  /\ Serving(B)
  /\ deviceState' = ds
  /\ currentEncAlgo' = algo
  /\ out' = [op |-> op, req |-> req, status |-> status, body |-> body, events |-> events]
  /\ view' = Delivered(view, sockets, events)
  /\ reqs' = reqs + 1
  /\ UNCHANGED <<env, phase, now, timerDue, sensorHistory, appended, sockets, ticks>>

IsOn(state) == StrictEq(state, Str(<<"O", "N">>)) \/ StrictEq(state, Num(1))
               \/ StrictEq(state, Bool(TRUE))
IsOff(state) == StrictEq(state, Str(<<"O", "F", "F">>)) \/ StrictEq(state, Num(0))
                \/ StrictEq(state, Bool(FALSE))

\* mutant: whatever is not ON switches the LED off
postLed_ElseOff(B, state) ==
  LET ds == [deviceState EXCEPT !.led = IsOn(state), !.lastUpdate = Date(now)]
  IN Served(B, ds, currentEncAlgo, "led", [state |-> state], 200,
            [success |-> TRUE, led |-> ds.led],
            << [name |-> "ledStateChanged",
                payload |-> [led |-> ds.led, timestamp |-> ds.lastUpdate]] >>)

\* mutant: an unrecognized state leaves lastUpdate alone
postLed_TouchIfKnown(B, state) ==
  LET led == IF IsOn(state) THEN TRUE
             ELSE IF IsOff(state) THEN FALSE
                  ELSE deviceState.led
      ds == IF IsOn(state) \/ IsOff(state)
            THEN [deviceState EXCEPT !.led = led, !.lastUpdate = Date(now)]
            ELSE deviceState
  IN Served(B, ds, currentEncAlgo, "led", [state |-> state], 200,
            [success |-> TRUE, led |-> ds.led],
            << [name |-> "ledStateChanged",
                payload |-> [led |-> ds.led, timestamp |-> ds.lastUpdate]] >>)

\* mutant: lastUpdate is left alone
postLed_NoTouch(B, state) ==
  LET led == IF IsOn(state) THEN TRUE
             ELSE IF IsOff(state) THEN FALSE
                  ELSE deviceState.led
      ds == [deviceState EXCEPT !.led = led]
  IN Served(B, ds, currentEncAlgo, "led", [state |-> state], 200,
            [success |-> TRUE, led |-> ds.led],
            << [name |-> "ledStateChanged",
                payload |-> [led |-> ds.led, timestamp |-> ds.lastUpdate]] >>)

\* app.post('/led') (src/server.js 241-274)
postLed(B, state) ==
  LET led == IF IsOn(state) THEN TRUE
             ELSE IF IsOff(state) THEN FALSE
                  ELSE deviceState.led
      ds == [deviceState EXCEPT !.led = led, !.lastUpdate = Date(now)]
  IN Served(B, ds, currentEncAlgo, "led", [state |-> state], 200,
            [success |-> TRUE, led |-> ds.led],
            << [name |-> "ledStateChanged",
                payload |-> [led |-> ds.led, timestamp |-> ds.lastUpdate]] >>)

\* mutant: the state is interpreted before the permission is checked
postFan_StateFirst(B, state) ==
  IF ~IsOn(state) /\ ~IsOff(state)
  THEN Served(B, deviceState, currentEncAlgo, "fan", [state |-> state], 400,
              [success |-> FALSE, message |-> "Invalid fan state"], <<>>)
  ELSE IF ~deviceState.allowFanControl
       THEN Served(B, deviceState, currentEncAlgo, "fan", [state |-> state], 403,
                   [success |-> FALSE, message |-> "Fan control is disabled"], <<>>)
       ELSE LET ds == [deviceState EXCEPT !.fan = IsOn(state),
                                          !.lastUpdate = Date(now)]
            IN Served(B, ds, currentEncAlgo, "fan", [state |-> state], 200,
                      [success |-> TRUE, fan |-> ds.fan],
                      << [name |-> "fanStateChanged",
                          payload |-> [fan |-> ds.fan, timestamp |-> ds.lastUpdate]] >>)

\* mutant: as lenient as /led, an unrecognized state is answered with success
postFan_Lenient(B, state) ==
  IF ~deviceState.allowFanControl
  THEN Served(B, deviceState, currentEncAlgo, "fan", [state |-> state], 403,
              [success |-> FALSE, message |-> "Fan control is disabled"], <<>>)
  ELSE LET fan == IF IsOn(state) THEN TRUE
                  ELSE IF IsOff(state) THEN FALSE
                       ELSE deviceState.fan
           ds == [deviceState EXCEPT !.fan = fan, !.lastUpdate = Date(now)]
       IN Served(B, ds, currentEncAlgo, "fan", [state |-> state], 200,
                 [success |-> TRUE, fan |-> ds.fan],
                 << [name |-> "fanStateChanged",
                     payload |-> [fan |-> ds.fan, timestamp |-> ds.lastUpdate]] >>)

\* app.post('/fan') (src/server.js 277-317)
postFan(B, state) ==
  IF ~deviceState.allowFanControl
  THEN Served(B, deviceState, currentEncAlgo, "fan", [state |-> state], 403,
              [success |-> FALSE, message |-> "Fan control is disabled"], <<>>)
  ELSE IF ~IsOn(state) /\ ~IsOff(state)
       THEN Served(B, deviceState, currentEncAlgo, "fan", [state |-> state], 400,
                   [success |-> FALSE, message |-> "Invalid fan state"], <<>>)
       ELSE LET ds == [deviceState EXCEPT !.fan = IsOn(state),
                                          !.lastUpdate = Date(now)]
            IN Served(B, ds, currentEncAlgo, "fan", [state |-> state], 200,
                      [success |-> TRUE, fan |-> ds.fan],
                      << [name |-> "fanStateChanged",
                          payload |-> [fan |-> ds.fan, timestamp |-> ds.lastUpdate]] >>)

\* app.get('/sensor') (src/server.js 320-326)
getSensor(B) ==
  Served(B, deviceState, currentEncAlgo, "sensor", Null, 200,
         [temperature |-> deviceState.temperature,
          humidity |-> deviceState.humidity,
          timestamp |-> deviceState.lastUpdate], <<>>)

\* app.get('/status') (src/server.js 329-335)
getStatus(B) ==
  Served(B, deviceState, currentEncAlgo, "status", Null, 200,
         [state |-> deviceState, encAlgo |-> currentEncAlgo,
          dataHealth |-> getDataHealth(deviceState, now, env)], <<>>)

\* app.get('/data-health') (src/server.js 338-340)
getHealth(B) ==
  Served(B, deviceState, currentEncAlgo, "data-health", Null, 200,
         getDataHealth(deviceState, now, env), <<>>)

\* the algorithm an export uses: req.query.algo when ALGORITHMS has it, else
\* the active one (src/server.js 346-348, 370-372)
exportAlgo(queryAlgo) ==
  IF Truthy(queryAlgo) /\ Truthy(ALGORITHMS(queryAlgo.v))
  THEN queryAlgo.v
  ELSE currentEncAlgo

\* the response of an export of `data` (src/server.js 356-365, 379-388)
exportResponse(data, queryAlgo, rnd) ==
  LET enc == encryptJSON(data, exportAlgo(queryAlgo), DATA_SECRET(env), rnd)
  IN IF enc.ok
     THEN [status |-> 200,
           body |-> [encrypted |-> TRUE, algo |-> enc.value.algo,
                     iv |-> enc.value.iv, data |-> enc.value.data]]
     ELSE [status |-> 500,
           body |-> [encrypted |-> FALSE, error |-> "encryption error"]]

\* mutant: the algorithm an export used becomes the active one
getSensorEncrypted_Sticky(B, queryAlgo, rnd) ==
  LET data == [timestamp |-> [t |-> "isostring", v |-> deviceState.lastUpdate.v],
               temperature |-> deviceState.temperature,
               humidity |-> deviceState.humidity]
      res == exportResponse(data, queryAlgo, rnd)
  IN Served(B, deviceState, exportAlgo(queryAlgo), "sensor_encrypted", [algo |-> queryAlgo],
            res.status, res.body, <<>>)

\* app.get('/sensor_encrypted') (src/server.js 345-366)
getSensorEncrypted(B, queryAlgo, rnd) ==
  LET data == [timestamp |-> [t |-> "isostring", v |-> deviceState.lastUpdate.v],
               temperature |-> deviceState.temperature,
               humidity |-> deviceState.humidity]
      res == exportResponse(data, queryAlgo, rnd)
  IN Served(B, deviceState, currentEncAlgo, "sensor_encrypted", [algo |-> queryAlgo],
            res.status, res.body, <<>>)

\* app.get('/humidity_encrypted') (src/server.js 369-389)
getHumidityEncrypted(B, queryAlgo, rnd) ==
  LET data == [timestamp |-> [t |-> "isostring", v |-> deviceState.lastUpdate.v],
               humidity |-> deviceState.humidity]
      res == exportResponse(data, queryAlgo, rnd)
  IN Served(B, deviceState, currentEncAlgo, "humidity_encrypted", [algo |-> queryAlgo],
            res.status, res.body, <<>>)

\* the coercion of allowFanControl (src/server.js 402-406)
coerceFlag(x) == StrictEq(x, Bool(TRUE)) \/ StrictEq(x, Str(TRUE_STR))
                 \/ StrictEq(x, Num(1)) \/ StrictEq(x, Str(<<"1">>))

\* app.post('/settings') (src/server.js 397-437)
postSettings(B, allowFanControl, algo) ==
  LET ds == IF allowFanControl.t # "undefined"
            THEN [deviceState EXCEPT !.allowFanControl = coerceFlag(allowFanControl)]
            ELSE deviceState
      upper == IF algo.t = "string" THEN toUpperCase(algo.v) ELSE <<>>
  IN IF algo.t = "string" /\ ~Truthy(ALGORITHMS(upper))
     THEN Served(B, ds, currentEncAlgo, "settings", [allowFanControl |-> allowFanControl, algo |-> algo], 400,
                 [success |-> FALSE,
                  message |-> "Invalid encryption algorithm. Use AES or DES."], <<>>)
     ELSE LET newAlgo == IF algo.t = "string" THEN upper ELSE currentEncAlgo
          IN Served(B, ds, newAlgo, "settings", [allowFanControl |-> allowFanControl, algo |-> algo], 200,
                    [success |-> TRUE, allowFanControl |-> ds.allowFanControl,
                     encAlgo |-> newAlgo,
                     dataHealth |-> getDataHealth(ds, now, env)],
                    << [name |-> "settingsUpdated",
                        payload |-> [allowFanControl |-> ds.allowFanControl,
                                     encAlgo |-> newAlgo]] >>)

\* io.on('connection') (src/server.js 441-449): the new socket alone is sent
\* initialState
onConnection(B, o) ==
  /\ Serving(B)
  /\ o \notin sockets
  /\ sockets' = sockets \cup {o}
  /\ view' = [view EXCEPT ![o] = [connected |-> TRUE,
                                  allowFanControl |-> deviceState.allowFanControl,
                                  encAlgo |-> currentEncAlgo]]
  /\ out' = [op |-> "connection", req |-> [socket |-> o], status |-> 0,
             body |-> [to |-> o, state |-> deviceState, encAlgo |-> currentEncAlgo,
                       dataHealth |-> getDataHealth(deviceState, now, env)],
             events |-> <<>>]
  /\ reqs' = reqs + 1
  /\ UNCHANGED <<env, phase, now, timerDue, deviceState, currentEncAlgo, sensorHistory,
                 appended, ticks>>

\* socket.on('disconnect') (src/server.js 451-453)
onDisconnect(B, o) ==
  /\ Serving(B)
  /\ o \in sockets
  /\ sockets' = sockets \ {o}
  /\ view' = [view EXCEPT ![o] = NoView]
  /\ out' = [op |-> "disconnect", req |-> [socket |-> o], status |-> 0,
             body |-> Null, events |-> <<>>]
  /\ reqs' = reqs + 1
  /\ UNCHANGED <<env, phase, now, timerDue, deviceState, currentEncAlgo, sensorHistory,
                 appended, ticks>>

Led(B) == \E state \in B.states : postLed(B, state)
Fan(B) == \E state \in B.states : postFan(B, state)
Sensor(B) == getSensor(B)
Status(B) == getStatus(B)
Health(B) == getHealth(B)
SensorEncrypted(B) ==
  \E q \in B.queryAlgos, rnd \in B.exportRnds :
    getSensorEncrypted(B, q, rnd)
HumidityEncrypted(B) ==
  \E q \in B.queryAlgos, rnd \in B.exportRnds :
    getHumidityEncrypted(B, q, rnd)
Settings(B) ==
  \E f \in B.flags, a \in B.algos : postSettings(B, f, a)
Connect(B) == \E o \in B.observers : onConnection(B, o)
Disconnect(B) == \E o \in B.observers : onDisconnect(B, o)

Next(B) ==
  \/ Tick(B)
  \/ Advance(B)
  \/ Led(B)
  \/ Fan(B)
  \/ Sensor(B)
  \/ Status(B)
  \/ Health(B)
  \/ SensorEncrypted(B)
  \/ HumidityEncrypted(B)
  \/ Settings(B)
  \/ Connect(B)
  \/ Disconnect(B)

Spec == Init(Wide) /\ [][Next(Wide)]_vars

SpecLong == Init(Long) /\ [][Next(Long)]_vars

SpecConfig == Init(Config) /\ [][Next(Config)]_vars

(***************************************************************************)
(* The data-health evaluator on its own: every lastUpdate (absent or a     *)
(* time), clock and configured maximum age                                 *)
(***************************************************************************)
HealthEnvs ==
  { [BaseEnv EXCEPT !.DATA_HEALTH_MAX_AGE_MS = a, !.TEMP_INTERVAL = i] :
      a \in {Undefined, Str(<<"0">>), Str(<<"1">>), Str(<<"-", "1">>), Str(<<"a", "b", "c">>),
             Str(<<" ", "2", "m", "s">>)},
      i \in {Undefined, Str(<<"1">>)} }

InitHealth ==
  /\ env \in HealthEnvs
  /\ phase = "evaluate"
  /\ now \in 0..MaxHealthTime
  /\ timerDue = 0
  /\ deviceState \in { [led |-> FALSE, fan |-> FALSE, allowFanControl |-> TRUE,
                        temperature |-> 25, humidity |-> 60, lastUpdate |-> u] :
                         u \in {Null} \cup { Date(t) : t \in 0..MaxHealthTime } }
  /\ currentEncAlgo = DEFAULT_ENC_ALGO(env)
  /\ sensorHistory = <<>>
  /\ appended = <<>>
  /\ sockets = {}
  /\ view = [o \in Observers |-> NoView]
  /\ out = NoOutput
  /\ ticks = 0
  /\ reqs = 0

Evaluate ==
  /\ out.op = "none"
  /\ out' = [op |-> "getDataHealth", req |-> Null, status |-> 0,
             body |-> getDataHealth(deviceState, now, env), events |-> <<>>]
  /\ UNCHANGED <<env, phase, now, timerDue, deviceState, currentEncAlgo, sensorHistory,
                 appended, sockets, view, ticks, reqs>>

SpecHealth == InitHealth /\ [][Evaluate]_vars

(***************************************************************************)
(* Key derivation on its own: deriveKey called twice, as encryptJSON calls *)
(* it, for every secret and registered algorithm                           *)
(***************************************************************************)
SecretChars == {"a", "1", "K"}

Secrets == UNION { [1..n -> SecretChars] : n \in 0..MaxSecretLen }

KeyEnvs ==
  { [BaseEnv EXCEPT !.DATA_SECRET = x] : x \in {Undefined} \cup { Str(k) : k \in Secrets } }

InitKey ==
  /\ env \in KeyEnvs
  /\ phase = "derive"
  /\ now = 0
  /\ timerDue = 0
  /\ deviceState = [led |-> FALSE, fan |-> FALSE, allowFanControl |-> TRUE,
                    temperature |-> 25, humidity |-> 60, lastUpdate |-> Date(0)]
  /\ currentEncAlgo \in {AES, DES}
  /\ sensorHistory = <<>>
  /\ appended = <<>>
  /\ sockets = {}
  /\ view = [o \in Observers |-> NoView]
  /\ out = [NoOutput EXCEPT !.body = <<>>]
  /\ ticks = 0
  /\ reqs = 0

\* const key = deriveKey(secret, algo.keyLen) (src/server.js 65); out.body
\* keeps the keys of the calls made so far
DeriveKey ==
  /\ reqs < 2
  /\ out' = [op |-> "deriveKey", req |-> Null, status |-> 0,
             body |-> Append(out.body,
                             deriveKey(DATA_SECRET(env), ALGORITHMS(currentEncAlgo).keyLen)),
             events |-> <<>>]
  /\ reqs' = reqs + 1
  /\ UNCHANGED <<env, phase, now, timerDue, deviceState, currentEncAlgo, sensorHistory,
                 appended, sockets, view, ticks>>

SpecKey == InitKey /\ [][DeriveKey]_vars

(***************************************************************************)
(* Claims                                                                  *)
(***************************************************************************)
Min(a, b) == IF a < b THEN a ELSE b

\* the step just taken served a request of kind op
Did(op) == reqs' = reqs + 1 /\ out'.op = op
\* the step just taken was a tick of the update cycle
Ticked == ticks' = ticks + 1

\* the bytes a base64 string decodes to
fromBase64(s) ==
  LET val(c) == IF c = "=" THEN 0 ELSE (CHOOSE i \in 1..64 : Base64Chars[i] = c) - 1
      pads == Cardinality({ j \in 1..Len(s) : s[j] = "=" })
      byte(k) == LET g == (k - 1) \div 3
                     r == (k - 1) % 3
                     c0 == val(s[4 * g + 1])
                     c1 == val(s[4 * g + 2])
                     c2 == val(s[4 * g + 3])
                     c3 == val(s[4 * g + 4])
                 IN CASE r = 0 -> c0 * 4 + (c1 \div 16)
                      [] r = 1 -> (c1 % 16) * 16 + (c2 \div 4)
                      [] OTHER -> (c2 % 4) * 64 + c3
  IN [k \in 1..((Len(s) \div 4) * 3 - pads) |-> byte(k)]

\* C1: in every reachable state the history buffer holds at most 500 entries.
C1_HistoryAtMost500 == Len(sensorHistory) <= 500

\* C1 witness: the buffer is full after more than 500 appends, requests served
C1_Witness ==
  /\ Len(appended) > 500
  /\ Len(sensorHistory) = 500
  /\ reqs > 0

\* C2: the history is FIFO: after n appends it holds exactly the last
\* min(n, 500) appended envelopes, oldest first.
C2_HistoryIsFifo ==
  LET n == Len(appended)
      k == Min(n, 500)
  IN /\ Len(sensorHistory) = k
     /\ \A i \in 1..k : sensorHistory[i] = appended[n - k + i]

\* C2 witness: after 501 appends the first-appended envelope is gone and the
\* other 500 are there in order
C2_Witness ==
  /\ Len(appended) = 501
  /\ \A i \in 1..Len(sensorHistory) : sensorHistory[i] # appended[1]
  /\ sensorHistory[1] = appended[2]
  /\ sensorHistory[500] = appended[501]

\* a settings request whose algo is a string that, upper-cased, is no key of
\* the registry
UnknownAlgo(req) ==
  req.algo.t = "string" /\ toUpperCase(req.algo.v) \notin {AES, DES}

\* C3 (as claimed): a settings call whose algo does not resolve fails with
\* InvalidAlgorithm and leaves allowFanControl and the active algorithm
\* unchanged, also when it carries an allowFanControl that differs.
C3_InvalidAlgoChangesNothing ==
  [][ (Did("settings") /\ UnknownAlgo(out'.req))
        => /\ out'.status = 400
           /\ deviceState'.allowFanControl = deviceState.allowFanControl
           /\ currentEncAlgo' = currentEncAlgo ]_vars

\* what the observer o was last told equals what is stored
Told(o) ==
  /\ view[o].connected
  /\ view[o].allowFanControl = deviceState.allowFanControl
  /\ view[o].encAlgo = currentEncAlgo

\* C4 (as claimed): at every point the {allowFanControl, encAlgo} last
\* published to each connected observer are the stored values.
C4_ObserversConsistent == \A o \in sockets : Told(o)

\* C5: with allowFanControl false a fan command fails with
\* FanControlDisabled whatever its state value, changes no state and
\* publishes no event.
C5_FanDisabledRejected ==
  [][ (Did("fan") /\ ~deviceState.allowFanControl)
        => /\ out'.status = 403
           /\ out'.body.message = "Fan control is disabled"
           /\ out'.events = <<>>
           /\ UNCHANGED <<deviceState, currentEncAlgo, sensorHistory, sockets, view>> ]_vars

\* C5 witness: a fan command with a valid "on" state was refused while fan
\* control was off
C5_Witness ==
  /\ out.op = "fan"
  /\ out.status = 403
  /\ ~deviceState.allowFanControl
  /\ IsOn(out.req.state)

\* C6 (as claimed): an export that names an algorithm the registry does not
\* have is rejected, not served.
C6_UnknownExportAlgoRejected ==
  (/\ out.op \in {"sensor_encrypted", "humidity_encrypted"}
   /\ Truthy(out.req.algo)
   /\ out.req.algo.v \notin {AES, DES})
     => out.status # 200

\* the iv length of the registry's profile
IvLengthOf(name) == IF name = AES THEN 16 ELSE IF name = DES THEN 8 ELSE 0 - 1

\* C7: after a successful settings call switching to X, given in any letter
\* case, the active algorithm is X (AES or DES) until the next successful
\* settings call, and every export that names no algorithm and returns an
\* envelope returns one whose algo is the active algorithm and whose iv
\* decodes to as many bytes as that profile's ivLength.
C7_ExportsUseActiveAlgorithm ==
  /\ [](/\ (out.op = "settings" /\ out.status = 200 /\ out.req.algo.t = "string")
             => (currentEncAlgo = toUpperCase(out.req.algo.v)
                 /\ currentEncAlgo \in {AES, DES})
        /\ (/\ out.op \in {"sensor_encrypted", "humidity_encrypted"}
            /\ ~Truthy(out.req.algo)
            /\ out.status = 200)
             => (/\ out.body.algo = currentEncAlgo
                 /\ Len(fromBase64(out.body.iv)) = IvLengthOf(currentEncAlgo)))
  /\ [][ currentEncAlgo' # currentEncAlgo
           => (Did("settings") /\ out'.status = 200) ]_vars

\* C7 witness: started under AES, switched to DES by a name in mixed case,
\* then an export without algo returned a DES envelope with an 8-byte iv
C7_Witness ==
  /\ DEFAULT_ENC_ALGO(env) = AES
  /\ out.op = "sensor_encrypted"
  /\ ~Truthy(out.req.algo)
  /\ out.status = 200
  /\ out.body.algo = DES
  /\ Len(fromBase64(out.body.iv)) = 8

\* C8 (as claimed): a tick whose history encryption fails still updates
\* temperature, humidity and lastUpdate, leaves the history unchanged,
\* publishes temperatureUpdated and dataHealthUpdated, and the schedule goes
\* on.
C8_EncryptFailureIsolated ==
  [][ (Ticked /\ ~out'.body.encrypted)
        => /\ deviceState'.lastUpdate = Date(now)
           /\ deviceState'.temperature = out'.events[1].payload.temperature
           /\ deviceState'.humidity = out'.events[1].payload.humidity
           /\ sensorHistory' = sensorHistory
           /\ Len(out'.events) = 2
           /\ out'.events[1].name = "temperatureUpdated"
           /\ out'.events[2].name = "dataHealthUpdated"
           /\ phase' = "running" ]_vars

\* C9 (as claimed): no failure inside a tick, of the forwarding step
\* included, fails the tick or stops the later ticks.
C9_TicksNeverFail == phase # "crashed"

\* C10: absent lastUpdate gives UNKNOWN, ageMs null, not fresh; otherwise OK
\* and fresh exactly when now - lastUpdate <= maxAge, STALE and not fresh
\* exactly when it is greater.
C10_HealthVerdict ==
  out.op = "getDataHealth" =>
    LET h == out.body
        last == deviceState.lastUpdate
    IN IF last.t = "null"
       THEN h.status = "UNKNOWN" /\ h.ageMs.t = "null" /\ ~h.isFresh
       ELSE /\ h.status \in {"OK", "STALE"}
            /\ (h.status = "OK" /\ h.isFresh) <=> (now - last.v <= maxAge(env))
            /\ (h.status = "STALE" /\ ~h.isFresh) <=> (now - last.v > maxAge(env))
            /\ h.ageMs = Num(now - last.v)

\* C10 witness: the boundary, an age equal to maxAge, is OK
C10_Witness ==
  /\ out.op = "getDataHealth"
  /\ deviceState.lastUpdate.t = "date"
  /\ now - deviceState.lastUpdate.v = maxAge(env)
  /\ out.body.status = "OK"

\* C11: the active algorithm is AES or DES in every reachable state, and
\* only a successful settings call changes it: ticks, LED and fan commands,
\* reads, exports (also with an explicit algorithm), rejected settings calls
\* and socket events leave it as it is.
C11_ActiveAlgorithmFrame ==
  /\ [](currentEncAlgo \in {AES, DES})
  /\ [][ (Did("settings") /\ out'.status = 200) \/ currentEncAlgo' = currentEncAlgo ]_vars
  /\ [][ (Ticked \/ \E op \in {"led", "fan", "sensor", "status", "data-health",
                               "sensor_encrypted", "humidity_encrypted"} : Did(op))
           => currentEncAlgo' = currentEncAlgo ]_vars

\* C11 witness: an export that named AES was served under AES while the
\* active algorithm stayed DES
C11_Witness ==
  /\ out.op = "sensor_encrypted"
  /\ out.req.algo = Str(AES)
  /\ out.status = 200
  /\ out.body.algo = AES
  /\ currentEncAlgo = DES

\* the recognized representations of ON and OFF
OnValues == {Str(<<"O", "N">>), Num(1), Bool(TRUE)}
OffValues == {Str(<<"O", "F", "F">>), Num(0), Bool(FALSE)}

\* C12: an LED command always returns success; a recognized ON sets led to
\* true, a recognized OFF sets it to false, any other state (a missing one
\* included) leaves led as it was.
C12_LedLenient ==
  [][ Did("led")
        => /\ out'.status = 200
           /\ out'.body.success
           /\ out'.req.state \in OnValues => deviceState'.led
           /\ out'.req.state \in OffValues => ~deviceState'.led
           /\ out'.req.state \notin (OnValues \cup OffValues)
                => deviceState'.led = deviceState.led
           /\ out'.body.led = deviceState'.led ]_vars

\* C12 witness: the LED was on, and a command with the unrecognized state
\* "on" returned success and left it on
C12_Witness ==
  /\ out.op = "led"
  /\ out.req.state = Str(<<"o", "n">>)
  /\ out.status = 200
  /\ deviceState.led

\* C13: with allowFanControl true, a fan command whose state is neither an
\* ON nor an OFF representation fails with InvalidState (400, "Invalid fan
\* state"); fan, lastUpdate and every other field are unchanged and no event
\* is published.
C13_FanInvalidState ==
  [][ (/\ Did("fan")
       /\ deviceState.allowFanControl
       /\ out'.req.state \notin (OnValues \cup OffValues))
        => /\ out'.status = 400
           /\ out'.body.message = "Invalid fan state"
           /\ ~out'.body.success
           /\ out'.events = <<>>
           /\ UNCHANGED <<deviceState, currentEncAlgo, sensorHistory, view>> ]_vars

\* C13 witness: the fan was switched on, then a command with an invalid
\* state was refused and the fan is still on
C13_Witness ==
  /\ out.op = "fan"
  /\ out.status = 400
  /\ deviceState.allowFanControl
  /\ deviceState.fan
  /\ out.req.state \notin (OnValues \cup OffValues)

\* the bound configured in x, or the default d when x is not set
Configured(x, d) == IF parseFloat(x).t = "number" THEN parseFloat(x).v ELSE d

\* C14 (as claimed): after every tick temperature is within the configured
\* [TEMP_MIN, TEMP_MAX] and humidity within the configured [HUM_MIN, HUM_MAX]
\* (defaults [20, 35] and [40, 80]), for every configured pair with
\* min <= max, and a status read after the first tick shows such a humidity.
C14_SensorValuesWithinBounds ==
  LET tmin == Configured(env.TEMP_MIN, 20)
      tmax == Configured(env.TEMP_MAX, 35)
      hmin == Configured(env.HUM_MIN, 40)
      hmax == Configured(env.HUM_MAX, 80)
  IN ticks >= 1 =>
       /\ tmin <= tmax => deviceState.temperature \in tmin..tmax
       /\ hmin <= hmax => deviceState.humidity \in hmin..hmax
       /\ (out.op = "status" /\ hmin <= hmax) => out.body.state.humidity \in hmin..hmax

\* the key length of the registry's profile
KeyLengthOf(name) == IF name = AES THEN 32 ELSE IF name = DES THEN 24 ELSE 0 - 1

\* C15: deriveKey is deterministic and length-exact: calls with the same
\* secret and key length return the same bytes, exactly keyLength of them
\* (32 for AES, 24 for DES), the first keyLength bytes of the hash of the
\* secret.
C15_DeriveKeyExact ==
  out.op = "deriveKey" =>
    LET n == KeyLengthOf(currentEncAlgo)
        digest == Sha256(DATA_SECRET(env))
    IN /\ \A i \in 1..Len(out.body) :
            /\ Len(out.body[i]) = n
            /\ \A k \in 1..n : out.body[i][k] = digest[k]
       /\ \A i, j \in 1..Len(out.body) : out.body[i] = out.body[j]

\* C15 witness: two calls for DES with a configured secret gave the same 24
\* bytes
C15_Witness ==
  /\ out.op = "deriveKey"
  /\ Len(out.body) = 2
  /\ currentEncAlgo = DES
  /\ env.DATA_SECRET = Str(<<"K", "1">>)
  /\ Len(out.body[1]) = 24
  /\ out.body[1] = out.body[2]

\* step a runs before step b in the tick whose steps are s
Before(s, a, b) ==
  \E i, j \in 1..Len(s) : s[i] = a /\ s[j] = b /\ i < j

\* the number of events called name among e
Count(e, name) == Cardinality({ i \in 1..Len(e) : e[i].name = name })

\* what every tick does, whatever the order of its steps: one
\* temperatureUpdated, then one dataHealthUpdated, the former with the values
\* just stored, the appended entry made of them, the verdict taken over the
\* lastUpdate just stored
TickContents ==
  /\ Count(out'.events, "temperatureUpdated") = 1
  /\ Count(out'.events, "dataHealthUpdated") = 1
  /\ Len(out'.events) = 2
  /\ out'.events[1].name = "temperatureUpdated"
  /\ out'.events[2].name = "dataHealthUpdated"
  /\ out'.events[1].payload = [temperature |-> deviceState'.temperature,
                               humidity |-> deviceState'.humidity,
                               timestamp |-> deviceState'.lastUpdate]
  /\ deviceState'.lastUpdate = Date(now)
  /\ out'.events[2].payload.lastUpdate = deviceState'.lastUpdate
  /\ out'.events[2].payload.ageMs = Num(now' - now)
  /\ out'.body.encrypted =>
       LET entry == sensorHistory'[Len(sensorHistory')]
       IN /\ entry.data.text.temperature = deviceState'.temperature
          /\ entry.data.text.humidity = deviceState'.humidity
          /\ entry.data.text.timestamp.v = deviceState'.lastUpdate.v

C17_EntryCarriesActiveAlgorithm ==
  /\ [][ (Ticked /\ out'.body.encrypted)
           => /\ sensorHistory'[Len(sensorHistory')].algo = currentEncAlgo
              /\ appended'[Len(appended')].algo = currentEncAlgo
              /\ \A i \in 1..Len(appended) : appended'[i] = appended[i] ]_vars
  /\ [][ ~Ticked => (sensorHistory' = sensorHistory /\ appended' = appended) ]_vars

\* C17 witness: the entry of the boot tick is under AES, a settings call
\* switched to DES, and the next tick appended an entry under DES next to it
C17_Witness ==
  /\ out.op = "tick"
  /\ Len(sensorHistory) = 2
  /\ sensorHistory[1].algo = AES
  /\ sensorHistory[2].algo = DES
  /\ currentEncAlgo = DES
  /\ DEFAULT_ENC_ALGO(env) = AES

\* C18: a successful LED or fan command sets lastUpdate to the current time
\* and publishes exactly one state-changed event, with the new actuator
\* value and that lastUpdate; temperature, humidity, allowFanControl, the
\* active algorithm and the history are unchanged (and an LED command leaves
\* fan alone, a fan command leaves led alone).
C18_ActuatorCommandEffects ==
  [][ /\ (Did("led") /\ out'.status = 200)
           => /\ deviceState'.lastUpdate = Date(now)
              /\ out'.events = << [name |-> "ledStateChanged",
                                   payload |-> [led |-> deviceState'.led,
                                                timestamp |-> deviceState'.lastUpdate]] >>
              /\ deviceState' = [deviceState EXCEPT !.led = deviceState'.led,
                                                    !.lastUpdate = deviceState'.lastUpdate]
              /\ UNCHANGED <<currentEncAlgo, sensorHistory>>
      /\ (Did("fan") /\ out'.status = 200)
           => /\ deviceState'.lastUpdate = Date(now)
              /\ out'.events = << [name |-> "fanStateChanged",
                                   payload |-> [fan |-> deviceState'.fan,
                                                timestamp |-> deviceState'.lastUpdate]] >>
              /\ deviceState' = [deviceState EXCEPT !.fan = deviceState'.fan,
                                                    !.lastUpdate = deviceState'.lastUpdate]
              /\ deviceState'.fan = (out'.req.state \in OnValues)
              /\ UNCHANGED <<currentEncAlgo, sensorHistory>> ]_vars

\* C18 witness: a fan command switched the fan on some time after the last
\* tick, and lastUpdate is the time of the command
C18_Witness ==
  /\ out.op = "fan"
  /\ out.status = 200
  /\ deviceState.fan
  /\ out.events[1].payload.timestamp = Date(now)
  /\ deviceState.lastUpdate = Date(now)
  /\ now > 0

\* the verdict a read would return in this state, and in the next
StatusNow == getDataHealth(deviceState, now, env).status
StatusNext == getDataHealth(deviceState', now', env).status

\* what an LED command with an unrecognized or missing state does to
\* lastUpdate and to the observers
LedTouches ==
  /\ deviceState' = [deviceState EXCEPT !.lastUpdate = Date(now)]
  /\ out'.events = << [name |-> "ledStateChanged",
                       payload |-> [led |-> deviceState.led, timestamp |-> Date(now)]] >>
  /\ UNCHANGED <<ticks, sensorHistory>>

\* C19 (as claimed): an LED command with an unrecognized or missing state
\* sets lastUpdate to the current time and publishes ledStateChanged with
\* the unchanged led value, and a device that read STALE reads OK right
\* after it, no tick having run.
C19_LedResetsStalenessAsClaimed ==
  [][ (Did("led") /\ out'.req.state \notin (OnValues \cup OffValues))
        => /\ LedTouches
           /\ StatusNow = "STALE" => StatusNext = "OK" ]_vars

\* C19 (amended): the same, the device reading OK right after the command
\* when maxAge is not negative.
C19_LedResetsStaleness ==
  [][ (Did("led") /\ out'.req.state \notin (OnValues \cup OffValues))
        => /\ LedTouches
           /\ (StatusNow = "STALE" /\ maxAge(env) >= 0) => StatusNext = "OK"
           /\ maxAge(env) < 0 => StatusNext = "STALE" ]_vars

\* C19 witness: one tick at time 0, maxAge 1, and at time 2 (STALE) an LED
\* command with the state "on", the only request so far, after which the
\* device reads OK
C19_Witness ==
  /\ out.op = "led"
  /\ out.req.state = Str(<<"o", "n">>)
  /\ ticks = 1
  /\ reqs = 1
  /\ maxAge(env) = 1
  /\ now = 2
  /\ deviceState.lastUpdate = Date(2)
  /\ ~deviceState.led
  /\ getDataHealth(deviceState, now, env).status = "OK"

\* C20 (as claimed): with a non-negative maxAge every dataHealthUpdated
\* event of the update cycle carries status OK and isFresh true.
C20_TickHealthAlwaysOk ==
  [][ (Ticked /\ maxAge(env) >= 0)
        => (out'.events[2].payload.status = "OK" /\ out'.events[2].payload.isFresh) ]_vars

\* C20 (amended): the dataHealthUpdated event of a tick carries as ageMs the
\* time the tick took from storing lastUpdate to evaluating freshness, and
\* status OK with isFresh true whenever that time is at most maxAge; no
\* request or socket handler publishes a dataHealthUpdated event, so a
\* verdict over an older lastUpdate is never pushed.
C20_TickHealth ==
  /\ [][ Ticked
           => LET h == out'.events[2].payload
                  took == now' - now
              IN /\ out'.events[2].name = "dataHealthUpdated"
                 /\ h.lastUpdate = Date(now)
                 /\ h.ageMs = Num(took)
                 /\ took <= maxAge(env) => (h.status = "OK" /\ h.isFresh)
                 /\ took > maxAge(env) => (h.status = "STALE" /\ ~h.isFresh) ]_vars
  /\ [][ reqs' = reqs + 1 => \A i \in 1..Len(out'.events) :
                                 out'.events[i].name # "dataHealthUpdated" ]_vars

\* C20 witness: maxAge 1; the device was STALE at time 2 (last tick at 0,
\* no command since), and the tick at time 2 pushed OK with age 0 to the
\* connected observer
C20_Witness ==
  /\ out.op = "tick"
  /\ ticks = 2
  /\ reqs = 1
  /\ sockets # {}
  /\ maxAge(env) = 1
  /\ deviceState.lastUpdate = Date(2)
  /\ out.events[2].payload.status = "OK"
  /\ out.events[2].payload.ageMs = Num(0)

====
